---------------------------- MODULE Spec2Model ----------------------------
(***************************************************************************)
(* A model of dnsdb_query.py (src/dnsdb_query.py), the reference client of *)
(* the DNSDB HTTP API: the parameter splitter, the time parser, the result *)
(* filters, the sort, the presenters and main().                           *)
(*                                                                         *)
(* Conventions.                                                            *)
(*   - A Python string that the program parses (a query parameter, a time  *)
(*     value) is a sequence of one-character strings: "a/A" is             *)
(*     <<"a", "/", "A">>.  Python's None is the value None below, which is *)
(*     no such sequence.                                                   *)
(*   - A decoded JSON record (a dict) is a function from the set of its    *)
(*     keys to its values.                                                 *)
(*   - A call that returns v is Ok(v); a call that raises exception class  *)
(*     e at line n of the source is Raise(e, n).                           *)
(***************************************************************************)
EXTENDS Integers, Sequences, FiniteSets, TLC

VARIABLES
    pc,          \* where main() stands: "lib" when the module is only imported
    opts,        \* optparse's options object (line 456)
    env,         \* what the process finds around it: command line, config files
    requests,    \* the paths of the requests urlopen was asked for (line 175)
    response,    \* what the server answered to the request
    res_list,    \* main()'s res_list
    fmt_func,    \* main()'s fmt_func
    stdout,      \* what has been written to sys.stdout, one entry per write
    stderr,      \* what has been written to sys.stderr
    exit_status, \* the process's exit status, NoExit while it runs
    call,        \* library use: the function called and its arguments
    ret          \* library use: what the call returned or raised

vars == <<pc, opts, env, requests, response, res_list, fmt_func, stdout,
          stderr, exit_status, call, ret>>

mainVars == <<pc, opts, env, requests, response, res_list, fmt_func, stdout,
              stderr, exit_status>>

-----------------------------------------------------------------------------
(* Bounds of the exploration.                                              *)

\* Longest query parameter string handed to split_rrset / split_rdata.
MaxLen == 6

\* Longest list of records a library call is given.
MaxRecords == 3

\* Longest list of records a response carries.
MaxResponse == 2

\* Longest list of records handed to the post-processing stages one by one.
MaxStageRecords == 4

-----------------------------------------------------------------------------
(* Python values.                                                          *)

None == <<"None">>

\* The exit status of a process that has not exited: no status a process
\* exits with.
NoExit == 0 - 1

Ok(v) == [ok |-> TRUE, val |-> v]

Raise(e, line) == [ok |-> FALSE, exc |-> e, line |-> line]

\* Python truthiness of a string-or-None value: None and '' are false.
Truthy(s) == s # None /\ s # <<>>

\* All strings over alphabet a of length at most n.
StringsUpTo(a, n) == UNION {[1..k -> a] : k \in 0..n}

\* All lists of elements of S of length at most n.
ListsUpTo(S, n) == UNION {[1..k -> S] : k \in 0..n}

-----------------------------------------------------------------------------
(* The parameter splitter, lines 185-240.                                  *)

dns_types == {
    <<"A">>, <<"A","6">>, <<"A","A","A","A">>, <<"A","F","S","D","B">>,
    <<"A","N","Y">>, <<"A","P","L">>, <<"A","T","M","A">>,
    <<"A","X","F","R">>, <<"C","A","A">>, <<"C","D","S">>,
    <<"C","E","R","T">>, <<"C","N","A","M","E">>, <<"D","H","C","I","D">>,
    <<"D","L","V">>, <<"D","N","A","M","E">>, <<"D","N","S","K","E","Y">>,
    <<"D","S">>, <<"E","I","D">>, <<"G","P","O","S">>,
    <<"H","I","N","F","O">>, <<"H","I","P">>,
    <<"I","P","S","E","C","K","E","Y">>, <<"I","S","D","N">>,
    <<"I","X","F","R">>, <<"K","E","Y">>, <<"K","X">>, <<"L","O","C">>,
    <<"M","A","I","L","A">>, <<"M","A","I","L","B">>, <<"M","B">>,
    <<"M","D">>, <<"M","F">>, <<"M","G">>, <<"M","I","N","F","O">>,
    <<"M","R">>, <<"M","X">>, <<"N","A","P","T","R">>,
    <<"N","I","M","L","O","C">>, <<"N","I","N","F","O">>, <<"N","S">>,
    <<"N","S","A","P">>, <<"N","S","A","P","_","P","T","R">>,
    <<"N","S","E","C">>, <<"N","S","E","C","3">>,
    <<"N","S","E","C","3","P","A","R","A","M">>, <<"N","U","L","L">>,
    <<"N","X","T">>, <<"O","P","T">>, <<"P","T","R">>, <<"P","X">>,
    <<"R","K","E","Y">>, <<"R","P">>, <<"R","R","S","I","G">>, <<"R","T">>,
    <<"S","I","G">>, <<"S","I","N","K">>, <<"S","O","A">>, <<"S","P","F">>,
    <<"S","R","V">>, <<"S","S","H","F","P">>, <<"T","A">>,
    <<"T","A","L","I","N","K">>, <<"T","K","E","Y">>, <<"T","S","I","G">>,
    <<"T","X","T">>, <<"U","R","I">>, <<"W","K","S">>, <<"X","2","5">> }

\* str.upper() on one character (ASCII letters; everything else is kept).
UpperChar(c) ==
    CASE c = "a" -> "A" [] c = "b" -> "B" [] c = "c" -> "C" [] c = "d" -> "D"
      [] c = "e" -> "E" [] c = "f" -> "F" [] c = "g" -> "G" [] c = "h" -> "H"
      [] c = "i" -> "I" [] c = "j" -> "J" [] c = "k" -> "K" [] c = "l" -> "L"
      [] c = "m" -> "M" [] c = "n" -> "N" [] c = "o" -> "O" [] c = "p" -> "P"
      [] c = "q" -> "Q" [] c = "r" -> "R" [] c = "s" -> "S" [] c = "t" -> "T"
      [] c = "u" -> "U" [] c = "v" -> "V" [] c = "w" -> "W" [] c = "x" -> "X"
      [] c = "y" -> "Y" [] c = "z" -> "Z" [] OTHER -> c

Upper(s) == [i \in 1..Len(s) |-> UpperChar(s[i])]

\* (?:$|/) at position q of s: '/' there, the end of the string, or, as
\* Python's $ also matches, the newline that ends the string.
TerminatorAt(s, q) ==
    \/ q = Len(s) + 1
    \/ q <= Len(s) /\ s[q] = "/"
    \/ q = Len(s) /\ s[q] = "\n"

\* The positions q at which a match of param_split_re that starts at p has
\* read its type token: s[p] is '/', s[p+1..q-1] is a type whatever its case
\* (re.I), and the terminator stands at q.
TokenEnds(s, p) ==
    {q \in (p + 2)..(Len(s) + 1) :
        /\ s[p] = "/"
        /\ Upper(SubSeq(s, p + 1, q - 1)) \in dns_types
        /\ TerminatorAt(s, q)}

MatchStarts(s) == {p \in 1..Len(s) : TokenEnds(s, p) # {}}

\* The split taken at the last match, not the first.
ParamSplit_last(s) ==
    IF MatchStarts(s) = {} THEN <<s>>
    ELSE LET p == CHOOSE x \in MatchStarts(s) : \A y \in MatchStarts(s) : x >= y
             q == CHOOSE x \in TokenEnds(s, p) : TRUE
             after == IF q <= Len(s) /\ s[q] = "/" THEN q + 1 ELSE q
         IN  <<SubSeq(s, 1, p - 1), SubSeq(s, p + 1, q - 1),
               SubSeq(s, after, Len(s))>>

\* param_split_re.split(s, maxsplit=1): the string alone when nothing
\* matches, else what precedes the leftmost match, the captured group, and
\* what follows the match (the '/' terminator is part of the match, $ is not).
ParamSplit(s) ==
    IF MatchStarts(s) = {} THEN <<s>>
    ELSE LET p == CHOOSE x \in MatchStarts(s) : \A y \in MatchStarts(s) : x <= y
             q == CHOOSE x \in TokenEnds(s, p) : TRUE
             after == IF q <= Len(s) /\ s[q] = "/" THEN q + 1 ELSE q
         IN  <<SubSeq(s, 1, p - 1), SubSeq(s, p + 1, q - 1),
               SubSeq(s, after, Len(s))>>

split_rrset(rrset) ==
    LET parts == ParamSplit(rrset)
    IN  IF Len(parts) = 1 THEN Ok(<<parts[1], None, None>>)
        ELSE Ok(<<parts[1], Upper(parts[2]), parts[3]>>)

split_rdata(rrset) ==
    LET parts == ParamSplit(rrset)
    IN  IF Len(parts) < 3 THEN Raise("IndexError", 233)
        ELSE IF parts[3] # <<>> THEN Raise("ValueError", 234)
        ELSE IF Len(parts) = 1 THEN Ok(<<parts[1], None>>)
        ELSE Ok(<<parts[1], Upper(parts[2])>>)

-----------------------------------------------------------------------------
(* time_parse, lines 343-373, with the library calls it makes: int(),      *)
(* time.strptime() and calendar.timegm().                                  *)

Digits == {"0", "1", "2", "3", "4", "5", "6", "7", "8", "9"}

\* What str.isspace() accepts and SANY can write.
Whitespace == {" ", "\t", "\n", "\r", "\f"}

DigitVal(c) ==
    CASE c = "0" -> 0 [] c = "1" -> 1 [] c = "2" -> 2 [] c = "3" -> 3
      [] c = "4" -> 4 [] c = "5" -> 5 [] c = "6" -> 6 [] c = "7" -> 7
      [] c = "8" -> 8 [] c = "9" -> 9

AllDigits(s) == \A i \in 1..Len(s) : s[i] \in Digits

RECURSIVE DecimalValue(_)
DecimalValue(s) ==
    IF s = <<>> THEN 0
    ELSE 10 * DecimalValue(SubSeq(s, 1, Len(s) - 1)) + DigitVal(s[Len(s)])

RECURSIVE LStrip(_)
LStrip(s) == IF s # <<>> /\ s[1] \in Whitespace THEN LStrip(Tail(s)) ELSE s

RECURSIVE RStrip(_)
RStrip(s) ==
    IF s # <<>> /\ s[Len(s)] \in Whitespace
    THEN RStrip(SubSeq(s, 1, Len(s) - 1)) ELSE s

\* int(s) of Python 2 on a str: white space, an optional sign, white space
\* again, at least one decimal digit, white space.
ParseInt(s) ==
    LET t == LStrip(s)
        signed == t # <<>> /\ t[1] \in {"+", "-"}
        body == RStrip(IF signed THEN LStrip(Tail(t)) ELSE t)
    IN  IF body # <<>> /\ AllDigits(body)
        THEN Ok(IF signed /\ t[1] = "-" THEN 0 - DecimalValue(body)
                ELSE DecimalValue(body))
        ELSE Raise("ValueError", 356)

\* The directives of time.strptime: the strings each one's regular
\* expression accepts in full.
IsYearTok(s) == Len(s) = 4 /\ AllDigits(s)

IsMonthTok(s) ==
    \/ Len(s) = 1 /\ s[1] \in Digits \ {"0"}
    \/ Len(s) = 2 /\ s[1] = "0" /\ s[2] \in Digits \ {"0"}
    \/ Len(s) = 2 /\ s[1] = "1" /\ s[2] \in {"0", "1", "2"}

IsDayTok(s) ==
    \/ Len(s) = 1 /\ s[1] \in Digits \ {"0"}
    \/ Len(s) = 2 /\ s[1] = "3" /\ s[2] \in {"0", "1"}
    \/ Len(s) = 2 /\ s[1] \in {"1", "2"} /\ s[2] \in Digits
    \/ Len(s) = 2 /\ s[1] \in {"0", " "} /\ s[2] \in Digits \ {"0"}

IsHourTok(s) ==
    \/ Len(s) = 1 /\ s[1] \in Digits
    \/ Len(s) = 2 /\ s[1] \in {"0", "1"} /\ s[2] \in Digits
    \/ Len(s) = 2 /\ s[1] = "2" /\ s[2] \in {"0", "1", "2", "3"}

IsMinuteTok(s) ==
    \/ Len(s) = 1 /\ s[1] \in Digits
    \/ Len(s) = 2 /\ s[1] \in {"0", "1", "2", "3", "4", "5"} /\ s[2] \in Digits

IsSecondTok(s) ==
    \/ IsMinuteTok(s)
    \/ Len(s) = 2 /\ s[1] = "6" /\ s[2] \in {"0", "1"}

\* The value of a day token, whose first character may be a space.
TokValue(s) == DecimalValue(IF s[1] = " " THEN Tail(s) ELSE s)

isleap(y) == y % 4 = 0 /\ (y % 100 # 0 \/ y % 400 = 0)

mdays(y, m) ==
    IF m = 2 THEN (IF isleap(y) THEN 29 ELSE 28)
    ELSE IF m \in {4, 6, 9, 11} THEN 30 ELSE 31

\* datetime.date(y, m, d) exists.
ValidDate(y, m, d) == y >= 1 /\ m \in 1..12 /\ d >= 1 /\ d <= mdays(y, m)

RECURSIVE DaysBeforeMonth(_, _)
DaysBeforeMonth(y, m) ==
    IF m = 1 THEN 0 ELSE DaysBeforeMonth(y, m - 1) + mdays(y, m - 1)

\* datetime.date(y, 1, 1).toordinal() - _EPOCH_ORD
DaysBeforeYear(y) ==
    365 * (y - 1) + ((y - 1) \div 4) - ((y - 1) \div 100) + ((y - 1) \div 400)
        - 719162

\* calendar.timegm of the fields <<year, month, day, hour, minute, second>>.
timegm(f) ==
    ((DaysBeforeYear(f[1]) + DaysBeforeMonth(f[1], f[2]) + f[3] - 1) * 24 + f[4])
        * 3600 + f[5] * 60 + f[6]

\* time.strptime(s, '%Y-%m-%d'): the fields it returns, none on ValueError.
StrptimeDate(s) ==
    {f \in {<<DecimalValue(SubSeq(s, 1, 4)), TokValue(SubSeq(s, 6, k - 1)),
              TokValue(SubSeq(s, k + 1, Len(s))), 0, 0, 0>> :
                k \in {k \in 7..(Len(s) - 1) :
                         /\ IsYearTok(SubSeq(s, 1, 4))
                         /\ s[5] = "-"
                         /\ s[k] = "-"
                         /\ IsMonthTok(SubSeq(s, 6, k - 1))
                         /\ IsDayTok(SubSeq(s, k + 1, Len(s)))}} :
        ValidDate(f[1], f[2], f[3])}

\* time.strptime(s, '%Y-%m-%d %H:%M:%S'): the date, white space, the time.
StrptimeDateTime(s) ==
    LET n == Len(s)
        \* where the second dash, the white space, the hour and the two
        \* colons stand
        places == {<<o[1], o[1] + o[2], o[3], o[3] + o[4], o[3] + o[4] + o[5]>> :
                     o \in (7..8) \X (2..3) \X (10..n) \X (1..2) \X (2..3)}
        cuts == {c \in places :
                    /\ c[2] < c[3] /\ c[5] < n
                    /\ IsYearTok(SubSeq(s, 1, 4))
                    /\ s[5] = "-"
                    /\ s[c[1]] = "-"
                    /\ IsMonthTok(SubSeq(s, 6, c[1] - 1))
                    /\ IsDayTok(SubSeq(s, c[1] + 1, c[2] - 1))
                    /\ \A i \in c[2]..(c[3] - 1) : s[i] \in Whitespace
                    /\ s[c[4]] = ":"
                    /\ IsHourTok(SubSeq(s, c[3], c[4] - 1))
                    /\ s[c[5]] = ":"
                    /\ IsMinuteTok(SubSeq(s, c[4] + 1, c[5] - 1))
                    /\ IsSecondTok(SubSeq(s, c[5] + 1, n))}
    IN  {f \in {<<DecimalValue(SubSeq(s, 1, 4)), TokValue(SubSeq(s, 6, c[1] - 1)),
                  TokValue(SubSeq(s, c[1] + 1, c[2] - 1)),
                  DecimalValue(SubSeq(s, c[3], c[4] - 1)),
                  DecimalValue(SubSeq(s, c[4] + 1, c[5] - 1)),
                  DecimalValue(SubSeq(s, c[5] + 1, n))>> : c \in cuts} :
            ValidDate(f[1], f[2], f[3])}

time_parse(s) ==
    IF ParseInt(s).ok THEN ParseInt(s)
    ELSE IF StrptimeDate(s) # {}
         THEN Ok(timegm(CHOOSE f \in StrptimeDate(s) : TRUE))
    ELSE IF StrptimeDateTime(s) # {}
         THEN Ok(timegm(CHOOSE f \in StrptimeDateTime(s) : TRUE))
    ELSE Raise("ValueError", 373)

-----------------------------------------------------------------------------
(* The result filters, lines 375-433, and the sort of line 501.            *)

\* The loop of filter_before over the rest of the list, new_res_list so far.
RECURSIVE FilterBeforeLoop(_, _, _)
FilterBeforeLoop(rest, before_time, new_res_list) ==
    IF rest = <<>> THEN new_res_list
    ELSE LET res == Head(rest)
             keep == IF "time_first" \in DOMAIN res
                     THEN res["time_first"] < before_time
                     ELSE IF "zone_time_first" \in DOMAIN res
                     THEN res["zone_time_first"] < before_time
                     ELSE TRUE
         IN  FilterBeforeLoop(Tail(rest), before_time,
                 IF keep THEN Append(new_res_list, res) ELSE new_res_list)

\* filter_before with the strict comparison taken for a weak one.
filter_before_weak(lst, before_time) ==
    LET t == time_parse(before_time)
    IN  IF ~t.ok THEN t ELSE Ok(FilterBeforeLoop(lst, t.val + 1, <<>>))

filter_before(lst, before_time) ==
    LET t == time_parse(before_time)
    IN  IF ~t.ok THEN t ELSE Ok(FilterBeforeLoop(lst, t.val, <<>>))

RECURSIVE FilterAfterLoop(_, _, _)
FilterAfterLoop(rest, after_time, new_res_list) ==
    IF rest = <<>> THEN new_res_list
    ELSE LET res == Head(rest)
             keep == IF "time_last" \in DOMAIN res
                     THEN res["time_last"] > after_time
                     ELSE IF "zone_time_last" \in DOMAIN res
                     THEN res["zone_time_last"] > after_time
                     ELSE TRUE
         IN  FilterAfterLoop(Tail(rest), after_time,
                 IF keep THEN Append(new_res_list, res) ELSE new_res_list)

\* filter_after with the records it keeps put in front of those kept so far.
filter_after_prepend(lst, after_time) ==
    LET t == time_parse(after_time)
    IN  IF ~t.ok THEN t
        ELSE LET kept == FilterAfterLoop(lst, t.val, <<>>)
             IN  Ok([i \in 1..Len(kept) |-> kept[Len(kept) + 1 - i]])

filter_after(lst, after_time) ==
    LET t == time_parse(after_time)
    IN  IF ~t.ok THEN t ELSE Ok(FilterAfterLoop(lst, t.val, <<>>))

\* One step of the stable sort: r goes behind every record already placed
\* that does not come after it in the order asked for.
InsertSorted(placed, r, field, reverse) ==
    LET k == Cardinality({i \in 1..Len(placed) :
                 IF reverse THEN placed[i][field] >= r[field]
                 ELSE placed[i][field] <= r[field]})
    IN  SubSeq(placed, 1, k) \o <<r>> \o SubSeq(placed, k + 1, Len(placed))

RECURSIVE SortedBy(_, _, _)
SortedBy(list, field, reverse) ==
    IF list = <<>> THEN <<>>
    ELSE InsertSorted(SortedBy(SubSeq(list, 1, Len(list) - 1), field, reverse),
                      list[Len(list)], field, reverse)

Reversed(list) == [i \in 1..Len(list) |-> list[Len(list) + 1 - i]]

\* The sort with reverse=True taken for the ascending sort turned round.
sort_turned(lst, field, reverse) ==
    IF \E i \in 1..Len(lst) : field \notin DOMAIN lst[i]
    THEN Raise("KeyError", 501)
    ELSE Ok(IF reverse THEN Reversed(SortedBy(lst, field, FALSE))
            ELSE SortedBy(lst, field, FALSE))

\* res_list.sort(key=lambda r: r[field], reverse=reverse): the key of every
\* record is taken first, then the list is sorted, stably.
sort(lst, field, reverse) ==
    IF \E i \in 1..Len(lst) : field \notin DOMAIN lst[i]
    THEN Raise("KeyError", 501)
    ELSE Ok(SortedBy(lst, field, reverse))

-----------------------------------------------------------------------------
(* The presenters, lines 252-310.  A formatted record is the record of the *)
(* values that fill the slots of its format string.                        *)

DigitChar(n) ==
    CASE n = 0 -> "0" [] n = 1 -> "1" [] n = 2 -> "2" [] n = 3 -> "3"
      [] n = 4 -> "4" [] n = 5 -> "5" [] n = 6 -> "6" [] n = 7 -> "7"
      [] n = 8 -> "8" [] n = 9 -> "9"

\* '%02d' and '%04d' of a number that fits.
Pad2(n) == <<DigitChar(n \div 10), DigitChar(n % 10)>>

Pad4(n) == Pad2(n \div 100) \o Pad2(n % 100)

\* time.gmtime(ts): <<year, month, day, hour, minute, second>>.
gmtime(ts) ==
    LET days == ts \div 86400
        secs == ts % 86400
        y == CHOOSE y \in (1969 + (days \div 366))..(1971 + (days \div 365)) :
                 DaysBeforeYear(y) <= days /\ days < DaysBeforeYear(y + 1)
        doy == days - DaysBeforeYear(y)
        m == CHOOSE m \in 1..12 :
                 DaysBeforeMonth(y, m) <= doy
                     /\ doy < DaysBeforeMonth(y, m) + mdays(y, m)
    IN  <<y, m, doy - DaysBeforeMonth(y, m) + 1,
          secs \div 3600, (secs % 3600) \div 60, secs % 60>>

\* time.strftime('%Y-%m-%d %H:%M:%S -0000', time.gmtime(ts))
sec_to_text(ts) ==
    LET f == gmtime(ts)
    IN  Pad4(f[1]) \o <<"-">> \o Pad2(f[2]) \o <<"-">> \o Pad2(f[3]) \o <<" ">>
            \o Pad2(f[4]) \o <<":">> \o Pad2(f[5]) \o <<":">> \o Pad2(f[6])
            \o <<" ", "-", "0", "0", "0", "0">>

\* The comment lines rrset_to_text writes for the fields m has, in order.
RrsetHeader(m) ==
    (IF "bailiwick" \in DOMAIN m
        THEN <<[line |-> "bailiwick", text |-> m["bailiwick"]]>> ELSE <<>>)
    \o (IF "count" \in DOMAIN m
        THEN <<[line |-> "count", grouped |-> m["count"]]>> ELSE <<>>)
    \o (IF "time_first" \in DOMAIN m
        THEN <<[line |-> "first seen", time |-> sec_to_text(m["time_first"])]>>
        ELSE <<>>)
    \o (IF "time_last" \in DOMAIN m
        THEN <<[line |-> "last seen", time |-> sec_to_text(m["time_last"])]>>
        ELSE <<>>)
    \o (IF "zone_time_first" \in DOMAIN m
        THEN <<[line |-> "first seen in zone file",
                time |-> sec_to_text(m["zone_time_first"])]>>
        ELSE <<>>)
    \o (IF "zone_time_last" \in DOMAIN m
        THEN <<[line |-> "last seen in zone file",
                time |-> sec_to_text(m["zone_time_last"])]>>
        ELSE <<>>)

rrset_to_text(m) ==
    IF "rdata" \in DOMAIN m /\ m["rdata"] # <<>>
          /\ ~({"rrname", "rrtype"} \subseteq DOMAIN m)
    THEN Raise("KeyError", 294)
    ELSE Ok([fmt |-> "rrset",
             lines |-> RrsetHeader(m) \o
                 (IF "rdata" \in DOMAIN m
                  THEN [i \in 1..Len(m["rdata"]) |->
                          [line |-> "rr", rrname |-> m["rrname"],
                           rrtype |-> m["rrtype"], rdata |-> m["rdata"][i]]]
                  ELSE <<>>)])

rdata_to_text(m) ==
    IF ~({"rrname", "rrtype", "rdata"} \subseteq DOMAIN m)
    THEN Raise("KeyError", 310)
    ELSE Ok([fmt |-> "rdata", rrname |-> m["rrname"], rrtype |-> m["rrtype"],
             rdata |-> m["rdata"]])

\* json.dumps of a decoded record: the text that encodes it.
json_dumps(m) == Ok([fmt |-> "json", obj |-> m])

Format(f, m) ==
    CASE f = "rrset_to_text" -> rrset_to_text(m)
      [] f = "rdata_to_text" -> rdata_to_text(m)
      [] f = "json.dumps" -> json_dumps(m)

-----------------------------------------------------------------------------
(* The requests of DnsdbClient, lines 91-183.                              *)

\* The ASCII characters from space (32) to tilde (126), in order.
\* The grave accent (96) stands under its name.
Printable ==
    <<" ", "!", "\"", "#", "$", "%", "&", "'", "(", ")", "*", "+", ",", "-",
      ".", "/", "0", "1", "2", "3", "4", "5", "6", "7", "8", "9", ":", ";",
      "<", "=", ">", "?", "@", "A", "B", "C", "D", "E", "F", "G", "H", "I",
      "J", "K", "L", "M", "N", "O", "P", "Q", "R", "S", "T", "U", "V", "W",
      "X", "Y", "Z", "[", "\\", "]", "^", "_", "grave", "a", "b", "c", "d", "e",
      "f", "g", "h", "i", "j", "k", "l", "m", "n", "o", "p", "q", "r", "s",
      "t", "u", "v", "w", "x", "y", "z", "{", "|", "}", "~">>

\* ord(c) of an ASCII character.
Ord(c) ==
    CASE c = "\t" -> 9
      [] c = "\n" -> 10
      [] c = "\f" -> 12
      [] c = "\r" -> 13
      [] OTHER -> 31 + (CHOOSE i \in 1..Len(Printable) : Printable[i] = c)

HexDigit(n) ==
    <<"0", "1", "2", "3", "4", "5", "6", "7", "8", "9",
      "A", "B", "C", "D", "E", "F">>[n + 1]

\* urllib's always_safe: the letters, the digits and '_.-'.
AlwaysSafe ==
    {Printable[i] : i \in (17..26) \cup (34..59) \cup (66..91)} \cup {"_", ".", "-"}

\* urllib.quote(path, safe=''): the characters of always_safe stay, every
\* other character becomes '%' and the two hex digits of its code.
QuoteChar(c) ==
    IF c \in AlwaysSafe THEN <<c>>
    ELSE <<"%", HexDigit(Ord(c) \div 16), HexDigit(Ord(c) % 16)>>

RECURSIVE quote(_)
quote(path) == IF path = <<>> THEN <<>> ELSE QuoteChar(Head(path)) \o quote(Tail(path))

\* The path of each lookup, as the pieces joined by '/'.
query_rrset(oname, rrtype, bailiwick) ==
    IF Truthy(bailiwick)
    THEN <<"rrset", "name", quote(oname),
           IF Truthy(rrtype) THEN rrtype ELSE <<"A", "N", "Y">>, quote(bailiwick)>>
    ELSE IF Truthy(rrtype) THEN <<"rrset", "name", quote(oname), rrtype>>
    ELSE <<"rrset", "name", quote(oname)>>

query_rdata_name(rdata_name, rrtype) ==
    IF Truthy(rrtype) THEN <<"rdata", "name", quote(rdata_name), rrtype>>
    ELSE <<"rdata", "name", quote(rdata_name)>>

query_rdata_ip(rdata_ip) ==
    <<"rdata", "ip", [i \in 1..Len(rdata_ip) |->
                          IF rdata_ip[i] = "/" THEN "," ELSE rdata_ip[i]]>>

\* DEFAULT_DNSDB_SERVER, line 61.
DEFAULT_DNSDB_SERVER == "https://api.dnsdb.info"

\* The request _query builds, lines 168-173: the URL server/lookup/path,
\* with '?limit=%d' behind it when the client's limit is true, and the
\* X-Api-Key header.
Request(server, apikey, limit, path) ==
    IF limit # 0
    THEN [server |-> server, path |-> path, apikey |-> apikey, limit |-> limit]
    ELSE [server |-> server, path |-> path, apikey |-> apikey]

\* The exception urlopen raises for an HTTP error response.  HTTPError's
\* constructor keeps the server's reason phrase in msg and leaves the
\* attribute message that BaseException gives every exception: ''.
HTTPError(resp) == [exc |-> "HTTPError", code |-> resp.code, msg |-> resp.msg,
                    message |-> ""]

\* raise QueryError, e.message, sys.exc_traceback     (line 182)
QueryErrorFrom(e) == [exc |-> "QueryError", message |-> e.message]

-----------------------------------------------------------------------------
(* The post-processing stages of main(), lines 494-505.                    *)

\* An option value the program does not take apart, kept whole: the
\* string text.  None, optparse's value for an option that was not given,
\* is no such value, whatever the text.
Text(text) == <<"str", text>>

TextOf(v) == v[2]

\* Python truthiness of such a value: None and '' are false.
TruthyText(v) == v # None /\ v # Text("")

\* Lines 495-501 on the list they are given.  The message of the invalid
\* sort key names the keys of the first record, sorted: keys is their set.
SortStage(lst, o) ==
    IF ~TruthyText(o.sort) THEN Ok(lst)
    ELSE IF lst = <<>> THEN Raise("IndexError", 496)
    ELSE IF TextOf(o.sort) \notin DOMAIN lst[1]
         THEN [ok |-> FALSE, exc |-> "SystemExit", line |-> 500,
               sort |-> TextOf(o.sort), keys |-> DOMAIN lst[1]]
    ELSE sort(lst, TextOf(o.sort), o.reverse)

\* Lines 502-503.
BeforeStage(lst, o) ==
    IF Truthy(o.before) THEN filter_before(lst, o.before) ELSE Ok(lst)

\* Lines 504-505.
AfterStage(lst, o) ==
    IF Truthy(o.after) THEN filter_after(lst, o.after) ELSE Ok(lst)

\* Lines 494-505: sort, then the before filter, then the after filter, each
\* on what the stage before it left, and none of them on an empty list.
PostProcess(lst, o) ==
    IF Len(lst) > 0
    THEN LET sorted == SortStage(lst, o)
         IN  IF ~sorted.ok THEN sorted
             ELSE LET before == BeforeStage(sorted.val, o)
                  IN  IF ~before.ok THEN before
                      ELSE AfterStage(before.val, o)
    ELSE Ok(lst)

\* The list res_list names when lines 494-505 are left, by their end or by
\* an exception: line 501 sorts the list in place, and leaves it as it was
\* when the key function raises; lines 503 and 505 rebind the name once
\* the filter has returned.
PostProcessList(lst, o) ==
    IF Len(lst) > 0
    THEN LET sorted == SortStage(lst, o)
         IN  IF ~sorted.ok THEN lst
             ELSE LET before == BeforeStage(sorted.val, o)
                  IN  IF ~before.ok THEN sorted.val
                      ELSE LET after == AfterStage(before.val, o)
                           IN  IF ~after.ok THEN before.val ELSE after.val
    ELSE lst

-----------------------------------------------------------------------------
(* main(), lines 435-508, one action per stretch of it that ends in an     *)
(* exit, in the request going out, in its answer, or in one write.         *)

\* What open(fname) finds, as the dictionary the lines of the file give:
\* a system file with a key and a server, a user's file with a key, a file
\* without a key, and a name that is no file.
ConfigFile(fname) ==
    CASE fname = "etc" ->
            Ok([APIKEY |-> "key-etc", DNSDB_SERVER |-> "https://dnsdb.test"])
      [] fname = "mine" -> Ok([APIKEY |-> "key-mine"])
      [] fname = "nokey" -> Ok([DNSDB_SERVER |-> "https://nokey.test"])
      [] OTHER -> Raise("IOError", 336)

\* config[key] = val for each line of a later file (line 339).
Updated(config, more) ==
    [k \in DOMAIN config \cup DOMAIN more |->
        IF k \in DOMAIN more THEN more[k] ELSE config[k]]

RECURSIVE ParseConfigLoop(_, _)
ParseConfigLoop(cfg_files, config) ==
    IF cfg_files = <<>> THEN Ok(config)
    ELSE LET f == ConfigFile(Head(cfg_files))
         IN  IF ~f.ok THEN f
             ELSE ParseConfigLoop(Tail(cfg_files), Updated(config, f.val))

\* parse_config, lines 312-341.
parse_config(cfg_files) ==
    IF cfg_files = <<>> THEN Raise("IOError", 333)
    ELSE ParseConfigLoop(cfg_files, <<>>)

\* Line 462: options.config or DEFAULT_CONFIG_FILES, the default files
\* being those of the two that exist.
LoadedConfig ==
    parse_config(IF opts.config # None /\ opts.config # <<>>
                 THEN opts.config ELSE env.default_files)

\* The server and the key the client is built with, lines 467-473.
Server ==
    IF "DNSDB_SERVER" \in DOMAIN LoadedConfig.val
    THEN LoadedConfig.val["DNSDB_SERVER"] ELSE DEFAULT_DNSDB_SERVER

\* sys.exit(1) after a message on standard error.
ExitWithError(msg) ==
    /\ stderr' = Append(stderr, msg)
    /\ exit_status' = 1
    /\ pc' = "done"

\* An exception nothing catches: the traceback goes to standard error and
\* the interpreter exits with status 1.
Uncaught(r) ==
    ExitWithError([kind |-> "traceback", exc |-> r.exc, line |-> r.line])

\* parser.print_help() writes to standard output; then sys.exit(1).
ExitWithUsage ==
    /\ stdout' = Append(stdout, [kind |-> "help"])
    /\ exit_status' = 1
    /\ pc' = "done"

\* Query parameters as a user types them: 'a', 'a/A', 'a/A/x', '1/8'.
Qa == <<"a">>

QaA == <<"a", "/", "A">>

QaAx == <<"a", "/", "A", "/", "x">>

Qip == <<"1", "/", "8">>

\* -c names files: none given, one that is no file, one without a key,
\* and one without a key followed by one with a key.
\* --sort is not given, names the field count, or is the text '<None>',
\* the name of no field.
OptionSamples ==
    [config : {None, <<"missing">>, <<"nokey">>, <<"nokey", "mine">>},
     limit : {0, 5},
     rrset : {None, Qa, QaAx},
     rdata_name : {None, Qa, QaA, QaAx},
     rdata_ip : {None, Qip},
     sort : {None, Text("count"), Text("<None>")},
     reverse : BOOLEAN,
     json : BOOLEAN,
     before : {None, <<"2">>, <<"x">>},
     after : {None, <<"1">>, <<"x">>}]

\* Line 456 and lines 457-459.  parse_args ends the process itself on -h
\* (the help on standard output, status 0) and on a command line it cannot
\* take (usage and the error on standard error, status 2); otherwise it
\* returns the options, and leftover arguments end the run with the help
\* and status 1.
ParseArgs ==
    /\ pc = "start"
    /\ IF env.argv = "help"
       THEN /\ stdout' = Append(stdout, [kind |-> "help"])
            /\ exit_status' = 0
            /\ pc' = "done"
            /\ UNCHANGED <<opts, stderr>>
       ELSE IF env.argv = "error"
       THEN /\ stderr' = Append(stderr, [kind |-> "usage error"])
            /\ exit_status' = 2
            /\ pc' = "done"
            /\ UNCHANGED <<opts, stdout>>
       ELSE \E o \in OptionSamples :
               /\ opts' = o
               /\ IF env.argv = "leftover"
                  THEN ExitWithUsage /\ UNCHANGED stderr
                  ELSE pc' = "config" /\ UNCHANGED <<stdout, stderr, exit_status>>
    /\ UNCHANGED <<env, requests, response, res_list, fmt_func, call, ret>>

\* Lines 461-471.
LoadConfig ==
    /\ pc = "config"
    /\ IF ~LoadedConfig.ok
       THEN ExitWithError([kind |-> "IOError", line |-> LoadedConfig.line])
       ELSE IF "APIKEY" \notin DOMAIN LoadedConfig.val
       THEN ExitWithError([kind |-> "APIKEY not defined in config file"])
       ELSE pc' = "query" /\ UNCHANGED <<stderr, exit_status>>
    /\ UNCHANGED <<opts, env, requests, response, res_list, fmt_func, stdout,
                   call, ret>>

\* _query up to urlopen, lines 167-175, for the client of line 473: the
\* request goes out.
SendRequest(path) ==
    /\ requests' = Append(requests,
                          Request(Server, LoadedConfig.val["APIKEY"],
                                  opts.limit, path))
    /\ pc' = "wait"
    /\ UNCHANGED <<stdout, stderr, exit_status>>

\* Lines 473-486 up to the call of the client: the first of -r, -n, -i
\* whose value is true decides.
Query ==
    /\ pc = "query"
    /\ IF Truthy(opts.rrset)
       THEN LET s == split_rrset(opts.rrset).val
            IN  SendRequest(query_rrset(s[1], s[2], s[3]))
       ELSE IF Truthy(opts.rdata_name)
       THEN LET s == split_rdata(opts.rdata_name)
            IN  IF s.ok
                THEN SendRequest(query_rdata_name(s.val[1], s.val[2]))
                ELSE Uncaught(s) /\ UNCHANGED <<requests, stdout>>
       ELSE IF Truthy(opts.rdata_ip)
       THEN SendRequest(query_rdata_ip(opts.rdata_ip))
       ELSE ExitWithUsage /\ UNCHANGED <<requests, stderr>>
    /\ UNCHANGED <<opts, env, response, res_list, fmt_func, call, ret>>

\* Records of an rrset lookup: complete, with zone times alone, and two
\* that lack fields a complete record has.
RrsetRecords == {
    [rrname |-> "x.test", rrtype |-> "A", rdata |-> <<"1.2.3.4">>,
        bailiwick |-> "test", count |-> 2, time_first |-> 1, time_last |-> 3],
    [rrname |-> "y.test", rrtype |-> "NS", rdata |-> <<"a.test", "b.test">>,
        count |-> 1, zone_time_first |-> 3, zone_time_last |-> 3],
    [rdata |-> <<"1.2.3.4">>, count |-> 3],
    [rrname |-> "z.test", rrtype |-> "A", time_first |-> 2, time_last |-> 2] }

\* Records of an rdata lookup.
RdataRecords == {
    [rrname |-> "x.test", rrtype |-> "A", rdata |-> "1.2.3.4",
        count |-> 2, time_first |-> 1, time_last |-> 3],
    [rrname |-> "y.test", rrtype |-> "A", rdata |-> "1.2.3.4",
        count |-> 1, zone_time_first |-> 3, zone_time_last |-> 3],
    [count |-> 3],
    [rrname |-> "z.test", rrtype |-> "A", rdata |-> "1.2.3.5",
        time_first |-> 2, time_last |-> 2] }

\* What the server may answer to the request: an HTTP error response, no
\* answer at all, a body with a line that is no JSON, or a body of records.
Responses ==
    {[kind |-> "http_error", code |-> 403, msg |-> "Forbidden"],
     [kind |-> "url_error"],
     [kind |-> "bad_json"]}
    \cup {[kind |-> "ok", records |-> l] :
            l \in ListsUpTo(IF requests[Len(requests)].path[1] = "rrset"
                            THEN RrsetRecords ELSE RdataRecords, MaxResponse)}

\* urlopen's outcome and the readline loop, lines 175-183; then main()'s
\* handler of QueryError, lines 487-489, or the assignment of fmt_func
\* that follows the call in the branch taken, lines 477, 480, 483.
Receive ==
    /\ pc = "wait"
    /\ \E resp \in Responses :
          /\ response' = resp
          /\ IF resp.kind = "http_error"
             THEN ExitWithError([kind |-> "message",
                                 text |-> QueryErrorFrom(HTTPError(resp)).message])
                  /\ UNCHANGED res_list
             ELSE IF resp.kind = "url_error"
             THEN Uncaught(Raise("URLError", 175)) /\ UNCHANGED res_list
             ELSE IF resp.kind = "bad_json"
             THEN Uncaught(Raise("ValueError", 180)) /\ UNCHANGED res_list
             ELSE /\ res_list' = resp.records
                  /\ pc' = "post"
                  /\ UNCHANGED <<stderr, exit_status>>
          /\ fmt_func' = IF resp.kind # "ok" THEN fmt_func
                         ELSE IF Truthy(opts.rrset) THEN "rrset_to_text"
                         ELSE "rdata_to_text"
    /\ UNCHANGED <<opts, env, requests, stdout, call, ret>>

\* Lines 491-505.
PostProcessing ==
    /\ pc = "post"
    /\ fmt_func' = IF opts.json THEN "json.dumps" ELSE fmt_func
    /\ res_list' = PostProcessList(res_list, opts)
    /\ LET r == PostProcess(res_list, opts)
       IN  IF r.ok
           THEN /\ pc' = "write"
                /\ UNCHANGED <<stderr, exit_status>>
           ELSE IF r.exc = "SystemExit"
           THEN ExitWithError([kind |-> "invalid sort key", sort |-> r.sort,
                               keys |-> r.keys])
           ELSE Uncaught(r)
    /\ UNCHANGED <<opts, env, requests, response, stdout, call, ret>>

\* One turn of the loop of lines 507-508; every write so far was a record.
WriteRecord ==
    /\ pc = "write"
    /\ Len(stdout) < Len(res_list)
    /\ LET text == Format(fmt_func, res_list[Len(stdout) + 1])
       IN  IF text.ok
           THEN /\ stdout' = Append(stdout, [kind |-> "record", text |-> text.val])
                /\ UNCHANGED <<pc, stderr, exit_status>>
           ELSE Uncaught(text) /\ UNCHANGED stdout
    /\ UNCHANGED <<opts, env, requests, response, res_list, fmt_func, call, ret>>

\* The loop is over and main() returns: exit status 0.
Finish ==
    /\ pc = "write"
    /\ Len(stdout) = Len(res_list)
    /\ exit_status' = 0
    /\ pc' = "done"
    /\ UNCHANGED <<opts, env, requests, response, res_list, fmt_func, stdout,
                   stderr, call, ret>>

\* The command line: -h on it, one optparse cannot take, one with leftover
\* positional arguments, or options alone.  The default config files that
\* exist: none, or the system's.
EnvSamples ==
    [argv : {"help", "error", "leftover", "options"},
     default_files : {<<>>, <<"etc">>}]

InitMain ==
    /\ pc = "start"
    /\ opts = <<>>
    /\ env \in EnvSamples
    /\ requests = <<>>
    /\ response = [kind |-> "none"]
    /\ res_list = <<>>
    /\ fmt_func = "unset"
    /\ stdout = <<>>
    /\ stderr = <<>>
    /\ exit_status = NoExit
    /\ call = [fn |-> "main"]
    /\ ret = None

NextMain ==
    \/ ParseArgs
    \/ LoadConfig
    \/ Query
    \/ Receive
    \/ PostProcessing
    \/ WriteRecord
    \/ Finish

SpecMain == InitMain /\ [][NextMain]_vars

-----------------------------------------------------------------------------
(* Library use of the splitter: a caller picks a string and calls          *)
(* split_rrset or split_rdata on it.                                       *)

SplitAlphabet == {"/", "a", "A", "x", "\n"}

\* The state of a process that only imported the module; main() never runs.
LibraryIdle ==
    /\ pc = "lib"
    /\ opts = <<>>
    /\ env = <<>>
    /\ requests = <<>>
    /\ response = [kind |-> "none"]
    /\ res_list = <<>>
    /\ fmt_func = "unset"
    /\ stdout = <<>>
    /\ stderr = <<>>
    /\ exit_status = NoExit

InitSplit ==
    /\ LibraryIdle
    /\ call \in {[fn |-> "input", arg |-> s] : s \in StringsUpTo(SplitAlphabet, MaxLen)}
    /\ ret = None

CallSplitRrset ==
    /\ call.fn = "input"
    /\ call' = [fn |-> "split_rrset", arg |-> call.arg]
    /\ ret' = split_rrset(call.arg)
    /\ UNCHANGED mainVars

CallSplitRdata ==
    /\ call.fn = "input"
    /\ call' = [fn |-> "split_rdata", arg |-> call.arg]
    /\ ret' = split_rdata(call.arg)
    /\ UNCHANGED mainVars

NextSplit == CallSplitRrset \/ CallSplitRdata

SpecSplit == InitSplit /\ [][NextSplit]_vars

-----------------------------------------------------------------------------
(* Library use of the filters and of the sort: a caller holds a list of    *)
(* decoded records and calls filter_before, filter_after or sort on it.    *)

\* Decoded records as the server sends them: with both kinds of time
\* stamps, with the zone file's alone, with none, with and without a count.
SampleRecords == {
    [rrname |-> "a", count |-> 1, time_first |-> 1, time_last |-> 3],
    [rrname |-> "b", count |-> 1, time_first |-> 2, time_last |-> 2],
    [rrname |-> "c", count |-> 2, time_first |-> 3, time_last |-> 1,
        zone_time_first |-> 1, zone_time_last |-> 3],
    [rrname |-> "d", count |-> 3, zone_time_first |-> 1, zone_time_last |-> 1],
    [rrname |-> "e", count |-> 2, zone_time_first |-> 3, zone_time_last |-> 3],
    [rrname |-> "f", count |-> 1],
    [rrname |-> "g", time_first |-> 1, time_last |-> 3] }

\* Time values as a caller writes them: '2', '1970-01-01' (0),
\* '1970-01-01 00:00:02' (2), '1970-1-1 0:0:1' (1) and two that do not parse.
TimeSamples == {
    <<"2">>,
    <<"1","9","7","0","-","0","1","-","0","1">>,
    <<"1","9","7","0","-","0","1","-","0","1"," ","0","0",":","0","0",":","0","2">>,
    <<"1","9","7","0","-","1","-","1"," ","0",":","0",":","1">>,
    <<"1","9","7","0","-","0","2","-","3","0">>,
    <<"x">> }

InitFilter ==
    /\ LibraryIdle
    /\ call \in {[fn |-> "input", lst |-> l, time |-> b] :
                    l \in ListsUpTo(SampleRecords, MaxRecords), b \in TimeSamples}
    /\ ret = None

CallFilterBefore ==
    /\ call.fn = "input"
    /\ call' = [call EXCEPT !.fn = "filter_before"]
    /\ ret' = filter_before(call.lst, call.time)
    /\ UNCHANGED mainVars

CallFilterAfter ==
    /\ call.fn = "input"
    /\ call' = [call EXCEPT !.fn = "filter_after"]
    /\ ret' = filter_after(call.lst, call.time)
    /\ UNCHANGED mainVars

NextFilter == CallFilterBefore \/ CallFilterAfter

SpecFilter == InitFilter /\ [][NextFilter]_vars

SortFields == {"count", "time_first"}

InitSort ==
    /\ LibraryIdle
    /\ call \in {[fn |-> "input", lst |-> l, field |-> f, reverse |-> r] :
                    l \in ListsUpTo(SampleRecords, MaxRecords),
                    f \in SortFields, r \in BOOLEAN}
    /\ ret = None

CallSort ==
    /\ call.fn = "input"
    /\ call' = [call EXCEPT !.fn = "sort"]
    /\ ret' = sort(call.lst, call.field, call.reverse)
    /\ UNCHANGED mainVars

NextSort == CallSort

SpecSort == InitSort /\ [][NextSort]_vars

-----------------------------------------------------------------------------
(* The post-processing stages taken one at a time: a caller holds a list   *)
(* of records and options, and runs the sort stage, the before filter and  *)
(* the after filter of lines 495-505 once each, in an order of its choice, *)
(* each on what the stage before it left, keeping the order it chose.  As  *)
(* in main(), no stage runs on an empty result list (line 494), and an     *)
(* exception ends the run.                                                 *)

\* '3' and '1970-1-1 0:0:1' (1) bound the times; 'x' does not parse.
StageOptions ==
    [sort : {None, Text("count"), Text("time_first")},
     reverse : BOOLEAN,
     before : {None, <<"3">>, <<"x">>},
     after : {None, <<"1","9","7","0","-","1","-","1"," ","0",":","0",":","1">>,
              <<"x">>}]

\* p and q pass both filters and differ in both sort fields; r has every
\* field and the before filter drops it; the after filter drops s, which
\* has no time_first and ties with r on count.
StageRecords == {
    [rrname |-> "p", count |-> 3, time_first |-> 1, time_last |-> 3],
    [rrname |-> "q", count |-> 1, time_first |-> 2, time_last |-> 2],
    [rrname |-> "r", count |-> 2, time_first |-> 3, time_last |-> 3],
    [rrname |-> "s", count |-> 2, zone_time_first |-> 1, zone_time_last |-> 1] }

InitStages ==
    /\ LibraryIdle
    /\ \E l \in ListsUpTo(StageRecords, MaxStageRecords), o \in StageOptions :
          /\ call = [fn |-> "input", lst |-> l, o |-> o, done |-> {},
                     order |-> <<>>]
          /\ ret = Ok(l)

StageEnabled(stage) ==
    /\ call.fn \in {"input", "sort_stage", "before_stage", "after_stage"}
    /\ stage \notin call.done
    /\ Len(call.lst) > 0
    /\ ret.ok

RunSortStage ==
    /\ StageEnabled("sort_stage")
    /\ ret' = SortStage(ret.val, call.o)
    /\ call' = [call EXCEPT !.fn = "sort_stage", !.done = @ \cup {"sort_stage"},
                             !.order = Append(@, "sort_stage")]
    /\ UNCHANGED mainVars

RunBeforeStage ==
    /\ StageEnabled("before_stage")
    /\ ret' = BeforeStage(ret.val, call.o)
    /\ call' = [call EXCEPT !.fn = "before_stage", !.done = @ \cup {"before_stage"},
                             !.order = Append(@, "before_stage")]
    /\ UNCHANGED mainVars

RunAfterStage ==
    /\ StageEnabled("after_stage")
    /\ ret' = AfterStage(ret.val, call.o)
    /\ call' = [call EXCEPT !.fn = "after_stage", !.done = @ \cup {"after_stage"},
                             !.order = Append(@, "after_stage")]
    /\ UNCHANGED mainVars

NextStages == RunSortStage \/ RunBeforeStage \/ RunAfterStage

SpecStages == InitStages /\ [][NextStages]_vars

-----------------------------------------------------------------------------
(* Properties of the splitter.  The segments of a string are what lies     *)
(* between its slashes; they are computed here from the slash positions,   *)
(* not with the regular expression.                                        *)

SlashPositions(s) == {p \in 1..Len(s) : s[p] = "/"}

\* Where the segment that starts after the slash at p ends: the next slash,
\* or one past the end of the string.
SegEnd(s, p) ==
    CHOOSE q \in (p + 1)..(Len(s) + 1) :
        /\ q = Len(s) + 1 \/ s[q] = "/"
        /\ \A r \in (p + 1)..(q - 1) : s[r] # "/"

SegmentAfter(s, p) == SubSeq(s, p + 1, SegEnd(s, p) - 1)

\* Everything after the segment that follows the slash at p and after the
\* slash that closes it.
RestAfter(s, p) == SubSeq(s, SegEnd(s, p) + 1, Len(s))

IsTypeSegment(s, p) == Upper(SegmentAfter(s, p)) \in dns_types

\* A last segment made of a type keyword and one newline.
IsTypeNewlineSegment(s, p) ==
    LET seg == SegmentAfter(s, p)
    IN  /\ SegEnd(s, p) = Len(s) + 1
        /\ Len(seg) >= 2
        /\ seg[Len(seg)] = "\n"
        /\ Upper(SubSeq(seg, 1, Len(seg) - 1)) \in dns_types

MinOf(S) == CHOOSE x \in S : \A y \in S : x <= y

TypePositions(s) == {p \in SlashPositions(s) : IsTypeSegment(s, p)}

\* C3 (as claimed): split_rdata returns (input, None) when no segment is a
\* type keyword, (name, TYPE) when nothing follows the first type segment,
\* and raises exactly when something follows it.
C3_SplitRdataAsClaimed ==
    call.fn = "split_rdata" =>
        LET s == call.arg
            P == TypePositions(s)
        IN  IF P = {} THEN ret = Ok(<<s, None>>)
            ELSE LET p == MinOf(P)
                 IN  IF RestAfter(s, p) = <<>>
                     THEN ret = Ok(<<SubSeq(s, 1, p - 1), Upper(SegmentAfter(s, p))>>)
                     ELSE ~ret.ok

\* C4 (as claimed): split_rrset returns (input, None, None) when no segment
\* after the first is a type keyword; otherwise the name is what precedes
\* the first such segment, the type is the segment upper-cased, and the
\* bailiwick is what follows it, None when nothing follows.
C4_SplitRrsetAsClaimed ==
    call.fn = "split_rrset" =>
        LET s == call.arg
            P == TypePositions(s)
        IN  IF P = {} THEN ret = Ok(<<s, None, None>>)
            ELSE LET p == MinOf(P)
                     rest == RestAfter(s, p)
                 IN  ret = Ok(<<SubSeq(s, 1, p - 1), Upper(SegmentAfter(s, p)),
                                IF rest = <<>> THEN None ELSE rest>>)

\* C4 (amended): as claimed, except that the bailiwick is the empty string,
\* not None, when nothing follows the type segment, and that a last segment
\* made of a type keyword and one newline is a type segment too, whose
\* bailiwick is that newline.
C4_SplitRrset ==
    call.fn = "split_rrset" =>
        LET s == call.arg
            P == {p \in SlashPositions(s) :
                     IsTypeSegment(s, p) \/ IsTypeNewlineSegment(s, p)}
        IN  IF P = {} THEN ret = Ok(<<s, None, None>>)
            ELSE LET p == MinOf(P)
                     seg == SegmentAfter(s, p)
                 IN  IF IsTypeSegment(s, p)
                     THEN ret = Ok(<<SubSeq(s, 1, p - 1), Upper(seg), RestAfter(s, p)>>)
                     ELSE ret = Ok(<<SubSeq(s, 1, p - 1),
                                     Upper(SubSeq(seg, 1, Len(seg) - 1)), <<"\n">> >>)

\* C4's case: split_rrset has split a string whose name holds a slash and
\* whose bailiwick holds a further type segment.
C4_Witness ==
    /\ call.fn = "split_rrset"
    /\ ret.ok
    /\ ret.val[2] # None
    /\ SlashPositions(ret.val[1]) # {}
    /\ TypePositions(<<"/">> \o ret.val[3]) # {}

-----------------------------------------------------------------------------
(* Properties of the filters.                                              *)

\* The records filter_before is to keep: time_first decides where there is
\* one, zone_time_first where there is none, and a record with neither stays.
KeptBefore(r, b) ==
    \/ "time_first" \in DOMAIN r /\ r["time_first"] < b
    \/ "time_first" \notin DOMAIN r /\ "zone_time_first" \in DOMAIN r
          /\ r["zone_time_first"] < b
    \/ "time_first" \notin DOMAIN r /\ "zone_time_first" \notin DOMAIN r

KeptAfter(r, b) ==
    \/ "time_last" \in DOMAIN r /\ r["time_last"] > b
    \/ "time_last" \notin DOMAIN r /\ "zone_time_last" \in DOMAIN r
          /\ r["zone_time_last"] > b
    \/ "time_last" \notin DOMAIN r /\ "zone_time_last" \notin DOMAIN r

\* out is l cut down to its positions in K, in their order.
IsSelection(out, l, K) ==
    /\ Len(out) = Cardinality(K)
    /\ \A i \in K : out[Cardinality({j \in K : j <= i})] = l[i]

\* C7: with a boundary that parses, filter_before returns exactly the
\* records that KeptBefore keeps, in their original order, and filter_after
\* those that KeptAfter keeps; a record equal to the boundary is dropped.
C7_Filters ==
    (call.fn \in {"filter_before", "filter_after"} /\ time_parse(call.time).ok) =>
        LET b == time_parse(call.time).val
            l == call.lst
            K == {i \in 1..Len(l) :
                    IF call.fn = "filter_before" THEN KeptBefore(l[i], b)
                    ELSE KeptAfter(l[i], b)}
        IN  ret.ok /\ IsSelection(ret.val, l, K)

\* C7's case: filter_before has dropped a record whose time_first is at the
\* boundary and one whose zone_time_first alone is before it, and has kept
\* a record with neither field behind a record it dropped.
C7_Witness ==
    /\ call.fn = "filter_before"
    /\ ret.ok
    /\ LET b == time_parse(call.time).val
           l == call.lst
       IN  /\ \E i \in 1..Len(l) :
                 "time_first" \in DOMAIN l[i] /\ l[i]["time_first"] = b
           /\ \E i \in 1..Len(l) :
                 /\ "time_first" \in DOMAIN l[i] /\ l[i]["time_first"] > b
                 /\ "zone_time_first" \in DOMAIN l[i] /\ l[i]["zone_time_first"] < b
           /\ Len(l) = 3 /\ Len(ret.val) = 1
           /\ DOMAIN ret.val[1] = {"rrname", "count"}

-----------------------------------------------------------------------------
(* Properties of the sort.                                                 *)

PermutationsOf(n) == {f \in [1..n -> 1..n] : \A i, j \in 1..n : f[i] = f[j] => i = j}

\* C10: when every record has the field, the sorted list is the input
\* rearranged, in non-decreasing order of the field (non-increasing with
\* reverse), records with equal values in their original order; and where
\* no two values are equal, the reverse sort is the forward sort turned round.
C10_StableSort ==
    (call.fn = "sort" /\ \A i \in 1..Len(call.lst) : call.field \in DOMAIN call.lst[i]) =>
        LET l == call.lst
            n == Len(l)
            f == call.field
        IN  /\ ret.ok
            /\ Len(ret.val) = n
            /\ \E pi \in PermutationsOf(n) :
                  /\ \A i \in 1..n : ret.val[i] = l[pi[i]]
                  /\ \A i, j \in 1..n : i < j =>
                        /\ IF call.reverse THEN ret.val[i][f] >= ret.val[j][f]
                           ELSE ret.val[i][f] <= ret.val[j][f]
                        /\ ret.val[i][f] = ret.val[j][f] => pi[i] < pi[j]
            /\ (\A i, j \in 1..n : i # j => l[i][f] # l[j][f]) =>
                  ret.val = Reversed(sort(l, f, ~call.reverse).val)

\* C10's case: a reverse sort has moved records, two of which tie.
C10_Witness ==
    /\ call.fn = "sort"
    /\ call.reverse
    /\ ret.ok
    /\ ret.val # call.lst
    /\ \E i, j \in 1..Len(call.lst) :
          /\ i < j
          /\ call.lst[i] # call.lst[j]
          /\ call.lst[i][call.field] = call.lst[j][call.field]

-----------------------------------------------------------------------------
(* Properties of main().                                                   *)

\* The options of the three that were given on the command line.
QueryOptionsGiven ==
    {o \in {"rrset", "rdata_name", "rdata_ip"} : opts[o] # None}

Records(out) == {i \in 1..Len(out) : out[i].kind = "record"}

UsagePrinted == \E i \in 1..Len(stdout) : stdout[i].kind = "help"

\* parse_args has returned the options.
OptionsParsed == pc \notin {"lib", "start"} /\ DOMAIN opts # {}

ConfigPassed == LoadedConfig.ok /\ "APIKEY" \in DOMAIN LoadedConfig.val

\* split_rdata raised on the value of -n before any request was built.
SplitRaised == \E i \in 1..Len(stderr) : stderr[i].kind = "traceback"

\* C1 (as claimed): unless exactly one of -r, -n, -i is given, no request
\* is ever sent and main(), once past its arguments and its configuration,
\* ends with the usage message and exit status 1.  Runs that an exception
\* of split_rdata ends are not asked for the usage message.
C1_ExactlyOneQueryOption ==
    (OptionsParsed /\ Cardinality(QueryOptionsGiven) # 1) =>
        /\ requests = <<>>
        /\ pc = "done" => exit_status = 1
        /\ (pc = "done" /\ ConfigPassed /\ ~SplitRaised) => UsagePrinted

\* C2 (as claimed): a run that has failed has written no record, and a run
\* that has succeeded has written every record of the post-processed list.
C2_AllOrNothing ==
    pc = "done" =>
        IF exit_status = 0 THEN Cardinality(Records(stdout)) = Len(res_list)
        ELSE Records(stdout) = {}

\* A --before or --after value that was given and that time_parse rejects.
BadTimeGiven ==
    \/ opts.before # None /\ ~time_parse(opts.before).ok
    \/ opts.after # None /\ ~time_parse(opts.after).ok

\* C5 (as claimed): when the query has succeeded and a --before or --after
\* value does not parse, the process does not exit with status 0.
C5_BadTimeIsFatal ==
    (pc = "done" /\ response.kind = "ok" /\ BadTimeGiven) => exit_status # 0

\* C6 (as claimed): with a sort field and a non-empty result list, a field
\* the first record lacks ends the run with the first record's field names
\* on standard error, status 1 and no record written; a field the first
\* record has makes the sort succeed, whatever the later records carry.
C6_SortStage ==
    (/\ pc \in {"write", "done"}
     /\ response.kind = "ok"
     /\ Len(response.records) > 0
     /\ TruthyText(opts.sort)) =>
        IF TextOf(opts.sort) \notin DOMAIN response.records[1]
        THEN /\ pc = "done"
             /\ exit_status = 1
             /\ stdout = <<>>
             /\ stderr = <<[kind |-> "invalid sort key", sort |-> TextOf(opts.sort),
                            keys |-> DOMAIN response.records[1]]>>
        ELSE \A i \in 1..Len(stderr) :
                ~(stderr[i].kind = "traceback" /\ stderr[i].line = 501)

\* C9 (as claimed): at most one request is ever sent, and an HTTP error
\* response ends the run with the server's message on standard error,
\* status 1 and no record written.
C9_SingleAttemptFailClosed ==
    /\ pc # "lib" => Len(requests) <= 1
    /\ (pc # "lib" /\ response.kind = "http_error") =>
          /\ pc = "done"
          /\ exit_status = 1
          /\ Records(stdout) = {}
          /\ stderr = <<[kind |-> "message", text |-> response.msg]>>

-----------------------------------------------------------------------------
(* Properties of the stages run in any order.                              *)

AllStages == {"sort_stage", "before_stage", "after_stage"}

\* The run of the stages is over: all three have run, or one has raised.
StagesOver ==
    /\ call.fn \in AllStages
    /\ call.done = AllStages \/ ~ret.ok

\* The same list, or failure on both sides.
SameOutcome(a, b) == (a.ok <=> b.ok) /\ (a.ok => a.val = b.val)

\* The sort stage raised what main() does not provide for: it was handed a
\* list that a filter had emptied, or a record past the first lacks the
\* sort field.
SortRaised(r) == ~r.ok /\ r.exc \in {"IndexError", "KeyError"}

\* C8 (as claimed): whatever the order the three stages ran in, the outcome
\* is that of main()'s order: sort, then before, then after.  Runs in which
\* the sort stage raises, in either order, are left aside.
C8_AnyOrderAsClaimed ==
    (/\ StagesOver
     /\ ~SortRaised(ret)
     /\ ~SortRaised(PostProcess(call.lst, call.o))) =>
        SameOutcome(ret, PostProcess(call.lst, call.o))

SomeTimeUnparseable(o) ==
    \/ Truthy(o.before) /\ ~time_parse(o.before).ok
    \/ Truthy(o.after) /\ ~time_parse(o.after).ok

\* Stage a ran before stage b in the order the caller chose.
RanBefore(order, a, b) ==
    \E i, j \in 1..Len(order) : i < j /\ order[i] = a /\ order[j] = b

\* The positions of l that are left when the sort stage gets its turn in
\* that order: those kept by the filters that are asked for and ran before
\* it.
HandedToSort(l, o, order) ==
    {i \in 1..Len(l) :
        /\ (Truthy(o.before) /\ RanBefore(order, "before_stage", "sort_stage"))
              => KeptBefore(l[i], time_parse(o.before).val)
        /\ (Truthy(o.after) /\ RanBefore(order, "after_stage", "sort_stage"))
              => KeptAfter(l[i], time_parse(o.after).val)}

\* The sort stage fails on the records of l at the positions K: there is
\* none, or one of them has no sort field.
SortFails(l, K, field) == K = {} \/ \E i \in K : field \notin DOMAIN l[i]

\* The order makes no difference to the sort stage: no sort is asked for,
\* or a boundary does not parse, or the sort fails on what it is handed
\* exactly when it fails on the whole list.
InStep(l, o, order) ==
    \/ ~TruthyText(o.sort)
    \/ SomeTimeUnparseable(o)
    \/ SortFails(l, HandedToSort(l, o, order), TextOf(o.sort))
          <=> SortFails(l, 1..Len(l), TextOf(o.sort))

\* C8 (amended): a run of the stages in some order gives the outcome of
\* main()'s order exactly when no sort field is given, or a boundary does
\* not parse, or the list the sort stage is handed in that order (the
\* result list less what the filters before it dropped) fails the sort
\* exactly when the whole list does; a list fails the sort when it is
\* empty or one of its records lacks the field.
C8_AnyOrder ==
    StagesOver =>
        (SameOutcome(ret, PostProcess(call.lst, call.o))
            <=> InStep(call.lst, call.o, call.order))

\* C8's case: every record has the sort field, the before filter dropped a
\* record and the after filter another, the sort stage ran behind them and
\* turned the two records that were left round.
C8_Witness ==
    /\ call.order = <<"before_stage", "after_stage", "sort_stage">>
    /\ ret.ok
    /\ TruthyText(call.o.sort)
    /\ \A i \in 1..Len(call.lst) : TextOf(call.o.sort) \in DOMAIN call.lst[i]
    /\ Len(call.lst) = 4
    /\ Truthy(call.o.before) /\ Truthy(call.o.after)
    /\ \E i \in 1..4 : ~KeptBefore(call.lst[i], time_parse(call.o.before).val)
    /\ \E i \in 1..4 : ~KeptAfter(call.lst[i], time_parse(call.o.after).val)
    /\ ret.val = <<call.lst[4], call.lst[1]>>
    /\ ret.val[1] # ret.val[2]

=============================================================================
